---- MODULE Spec2Model ----
(***************************************************************************)
(* License issuance of church-projector: scripts/generate_license.py.      *)
(*                                                                         *)
(* Every run of the script is one process p of Procs.  A process generates *)
(* a key, computes the expiration, POSTs the record to the store and, when *)
(* the store acknowledges, POSTs the e-mail.  The two requests.post calls  *)
(* are the only points where a run waits, so a run is cut into steps       *)
(* there; between them the processes interleave freely.                    *)
(*                                                                         *)
(* Strings the code looks into are sequences of one-character strings      *)
(* (the license key, the digits of argv[2]); strings it only passes on are *)
(* one-element sequences holding the text.                                 *)
(***************************************************************************)
EXTENDS Integers, Sequences, FiniteSets, TLC

\* ---------------------------------------------------------------- bounds
NumProcs == 2       \* runs of the script (sequential or overlapping)
NumRandSyms == 2    \* symbols of the alphabet the random source may return

Procs == 1..NumProcs

\* ------------------------------------------------------- python values
None == "<None>"                     \* os.environ.get() of an unset variable
Falsy(v) == v = None \/ v = ""       \* `not v` for an Optional[str]

SUPABASE_URL == "https://ejqzexdkoqbvgmjtbbwd.supabase.co"
FROM_EMAIL == "licenses@creenly.com"
RESEND_URL == "https://api.resend.com/emails"

\* ------------------------------------------------ generate_license_key
\* string.ascii_uppercase + string.digits
chars ==
  << "A","B","C","D","E","F","G","H","I","J","K","L","M",
     "N","O","P","Q","R","S","T","U","V","W","X","Y","Z",
     "0","1","2","3","4","5","6","7","8","9" >>

\* '-'.join(parts)
RECURSIVE join(_, _)
join(sep, parts) ==
  IF parts = << >> THEN << >>
  ELSE IF Len(parts) = 1 THEN parts[1]
  ELSE parts[1] \o sep \o join(sep, Tail(parts))

\* random.choices(chars, k): the n-th call takes the next k draws of the
\* random source; a draw is an index into chars.
random_choices(rand, n, k) == [j \in 1..k |-> chars[rand[(n - 1) * k + j]]]

generate_license_key_short(rand) ==
  LET parts == [n \in 1..2 |-> random_choices(rand, n, 4)]
  IN <<"P", "R", "O", "-">> \o join(<<"-">>, parts)

generate_license_key(rand) ==
  LET parts == [n \in 1..3 |-> random_choices(rand, n, 4)]
  IN <<"P", "R", "O", "-">> \o join(<<"-">>, parts)

\* The draws the random source may produce: the alphabet's first symbol,
\* its last, and from there downwards (A, 9, 8, ...).
RandIdx == {1 + (((i - 1) * 35) % 36) : i \in 1..NumRandSyms}
\* Random outcomes of the issuance runs: the docstring's PRO-ABCD-EFGH-IJKL
\* and PRO-9876-5432-10ZY.
KeySeeds == {[j \in 1..12 |-> j], [j \in 1..12 |-> 37 - j]}

\* --------------------------------------------------------- expiration
\* The clock of datetime.datetime.utcnow(), as a proleptic Gregorian
\* ordinal (2026-11-02); the time of day is carried along unchanged.
UtcNow == {739922}

\* timedelta(days=d) raises OverflowError beyond this magnitude.
TimedeltaOk(d) == d >= -999999999 /\ d <= 999999999
\* datetime + timedelta raises OverflowError outside 0001-01-01..9999-12-31.
DateOk(ord) == ord >= 1 /\ ord <= 3652059

\* datetime.isoformat(): the ordinal as <<year, month, day>>.
isoformat(ord) ==
  LET n0   == ord - 1
      n400 == n0 \div 146097
      r400 == n0 % 146097
      n100 == r400 \div 36524
      r100 == r400 % 36524
      n4   == r100 \div 1461
      r4   == r100 % 1461
      n1   == r4 \div 365
      n    == r4 % 365
      year == n400 * 400 + 1 + n100 * 100 + n4 * 4 + n1
      leap == n1 = 3 /\ (n4 # 24 \/ n100 = 3)
      before == <<0, 31, 59, 90, 120, 151, 181, 212, 243, 273, 304, 334>>
      Before(m) == before[m] + (IF m > 2 /\ leap THEN 1 ELSE 0)
      m0   == (n + 50) \div 32
      month == IF Before(m0) > n THEN m0 - 1 ELSE m0
  IN IF n1 = 4 \/ n100 = 4 THEN <<year - 1, 12, 31>>
     ELSE <<year, month, n - Before(month) + 1>>

\* ------------------------------------------------------------ int(s)
Digits == <<"0","1","2","3","4","5","6","7","8","9">>
DigitVal(c) == CHOOSE v \in 0..9 : Digits[v + 1] = c
IsDigit(c) == \E v \in 0..9 : Digits[v + 1] = c

RECURSIVE DigitsVal(_)
DigitsVal(s) ==
  IF s = << >> THEN 0 ELSE DigitsVal(SubSeq(s, 1, Len(s) - 1)) * 10 + DigitVal(s[Len(s)])

\* int(sys.argv[2]): an optional sign, then digits; anything else is a
\* ValueError.
IntOk(s) ==
  LET body == IF s # << >> /\ s[1] \in {"+", "-"} THEN Tail(s) ELSE s
  IN body # << >> /\ \A i \in DOMAIN body : IsDigit(body[i])
IntVal(s) ==
  IF s[1] = "-" THEN 0 - DigitsVal(Tail(s))
  ELSE IF s[1] = "+" THEN DigitsVal(Tail(s))
  ELSE DigitsVal(s)

\* ------------------------------------------------------------- state
VARIABLES
  SUPABASE_SERVICE_KEY,  \* module global, read from the environment at import
  RESEND_API_KEY,        \* module global, read from the environment at import
  pc,          \* where each run is: start, store_sent, store_replied,
               \* email_sent, done
  argv,        \* sys.argv[1:] of each run
  key,         \* create_license's local `key`
  expires_at,  \* create_license's local `expires_at`
  payload,     \* create_license's local `payload`
  posts,       \* the requests.post calls each run has issued, in order
  reply,       \* the store's answer to the run's insert, on its way back
  response,    \* create_license's local `response`
  stdout,      \* the lines each run has printed
  raised,      \* the exception that ended the run, "" when none
  exitCode,    \* the run's exit status, -1 while it runs
  licenses,    \* the store's table `licenses`, in insertion order
  origin       \* history: the run whose insert created each row of licenses

vars == << SUPABASE_SERVICE_KEY, RESEND_API_KEY, pc, argv, key, expires_at,
           payload, posts, reply, response, stdout, raised, exitCode,
           licenses, origin >>

\* ------------------------------------------------------------- inputs
\* Values of the two environment variables.
StoreKeys == {None, "", "service-role-secret"}
ResendKeys == {None, "re_key"}

\* Command lines: no argument, the e-mail alone (365 days by default), a
\* number of days, a non-number, and numbers of days that lead past year
\* 9999 and before year 1.
Argvs ==
  { << >>,
    << <<"buyer@example.com">> >>,
    << <<"other@example.com">>, <<"3", "0">> >>,
    << <<"buyer@example.com">>, <<"x">> >>,
    << <<"other@example.com">>, <<"3", "0", "0", "0", "0", "0", "0">> >>,
    << <<"buyer@example.com">>, <<"-", "8", "0", "0", "0", "0", "0">> >> }

NoReply == [status_code |-> 0, text |-> ""]
\* Answers of the store: the insert acknowledged, and rejected.
CreatedReplies ==
  { [status_code |-> 200, text |-> ""], [status_code |-> 201, text |-> ""] }
RejectedReplies ==
  { [status_code |-> 500, text |-> "Internal Server Error"] }
DuplicateReply ==
  [status_code |-> 409, text |-> "duplicate key value violates unique constraint"]

\* Outcomes of the e-mail request: a response, or an exception of requests.
EmailOutcomes ==
  { [exc |-> "", status_code |-> 200, text |-> "{id}"],
    [exc |-> "", status_code |-> 500, text |-> "server error"],
    [exc |-> "ConnectionError", status_code |-> 0, text |-> ""] }

\* ----------------------------------------------------- code fragments
Line(text, args) == [text |-> text, args |-> args]

\* `if not SUPABASE_SERVICE_KEY` (line 29)
StoreKeyUnchecked == FALSE
StoreKeyMissing == Falsy(SUPABASE_SERVICE_KEY)

\* `if not RESEND_API_KEY` (line 65)
ResendKeyUnchecked == FALSE
ResendKeyMissing == Falsy(RESEND_API_KEY)

\* `response.status_code in [200, 201]` (line 54)
StatusOkBelow500(status_code) == status_code < 500
StatusOkOnly200(status_code) == status_code = 200
StatusOk(status_code) == status_code \in {200, 201}

\* `resp.status_code == 200` (line 94)
EmailOk(status_code) == status_code = 200

\* payload (lines 37-42)
Payload(k, email, expires) ==
  [ license_key |-> k, email |-> email, status |-> "active",
    current_period_end |-> expires ]

\* The insert request (lines 44-52)
StorePost(body) ==
  [ url |-> <<SUPABASE_URL, "/rest/v1/licenses">>,
    json |-> body,
    headers |-> [ apikey |-> SUPABASE_SERVICE_KEY,
                  Authorization |-> <<"Bearer ", SUPABASE_SERVICE_KEY>>,
                  ContentType |-> "application/json",
                  Prefer |-> "return=minimal" ] ]

\* html_content and data (lines 77-90)
DataToSender(to_email, license_key) ==
  [ from |-> FROM_EMAIL, to |-> <<FROM_EMAIL>>,
    subject |-> "Your Creenly License Key",
    html |-> [ before |-> "<h1>Welcome to Creenly!</h1>...Your License Key:",
               license_key |-> license_key,
               after |-> "Activate this key in the Settings panel of the Church Projector app." ] ]
Data(to_email, license_key) ==
  [ from |-> FROM_EMAIL, to |-> to_email,
    subject |-> "Your Creenly License Key",
    html |-> [ before |-> "<h1>Welcome to Creenly!</h1>...Your License Key:",
               license_key |-> license_key,
               after |-> "Activate this key in the Settings panel of the Church Projector app." ] ]

\* The e-mail request (lines 71-75, 93)
EmailPost(data) ==
  [ url |-> <<RESEND_URL>>,
    json |-> data,
    headers |-> [ Authorization |-> <<"Bearer ", RESEND_API_KEY>>,
                  ContentType |-> "application/json" ] ]

\* requests.post(url, json=..., headers=...) (lines 52 and 93): one request
\* goes out, recorded in the run's log; the call itself never re-sends.
PostResending(log, request) == Append(Append(log, request), request)
Post(log, request) == Append(log, request)

\* ---------------------------------------------------------------- Init
Init ==
  /\ SUPABASE_SERVICE_KEY \in StoreKeys
  /\ RESEND_API_KEY \in ResendKeys
  /\ pc = [p \in Procs |-> "start"]
  /\ argv = [p \in Procs |-> << >>]
  /\ key = [p \in Procs |-> << >>]
  /\ expires_at = [p \in Procs |-> << >>]
  /\ payload = [p \in Procs |-> Payload(<< >>, << >>, << >>)]
  /\ posts = [p \in Procs |-> << >>]
  /\ reply = [p \in Procs |-> NoReply]
  /\ response = [p \in Procs |-> NoReply]
  /\ stdout = [p \in Procs |-> << >>]
  /\ raised = [p \in Procs |-> ""]
  /\ exitCode = [p \in Procs |-> -1]
  /\ licenses = << >>
  /\ origin = << >>

\* The run ends: the interpreter exits with `code`, after exception `exc`
\* ("" when the script ran to its end or called sys.exit).
Exit(p, lines, exc, code) ==
  /\ pc' = [pc EXCEPT ![p] = "done"]
  /\ stdout' = [stdout EXCEPT ![p] = @ \o lines]
  /\ raised' = [raised EXCEPT ![p] = exc]
  /\ exitCode' = [exitCode EXCEPT ![p] = code]

\* ------------------------------------------------------------- actions
\* The script from its start to the insert request: __main__ (lines
\* 101-109) and create_license up to requests.post (lines 28-52).
Main(p) ==
  /\ pc[p] = "start"
  /\ \E av \in Argvs, rand \in KeySeeds, now \in UtcNow :
       /\ argv' = [argv EXCEPT ![p] = av]
       /\ IF Len(av) + 1 < 2
          THEN \* usage, sys.exit(1)
               /\ Exit(p, <<Line("Usage: python generate_license.py <customer_email> [days_valid]", << >>)>>,
                       "", 1)
               /\ UNCHANGED <<key, expires_at, payload, posts>>
          ELSE IF Len(av) + 1 > 2 /\ ~IntOk(av[2])
          THEN \* int(sys.argv[2]) raises
               /\ Exit(p, << >>, "ValueError", 1)
               /\ UNCHANGED <<key, expires_at, payload, posts>>
          ELSE LET email == av[1]
                   days_valid == IF Len(av) + 1 > 2 THEN IntVal(av[2]) ELSE 365
                   k == generate_license_key(rand)
               IN IF StoreKeyMissing
                  THEN /\ Exit(p, << Line("ERROR: PROJECTOR_SUPABASE_SERVICE_KEY environment variable is not set.", << >>),
                                     Line("Please grab the 'service_role' secret from Supabase Dashboard > Settings > API.", << >>) >>,
                               "", 0)
                       /\ UNCHANGED <<key, expires_at, payload, posts>>
                  ELSE IF ~TimedeltaOk(days_valid) \/ ~DateOk(now + days_valid)
                  THEN \* timedelta() or the addition raises (line 35)
                       /\ key' = [key EXCEPT ![p] = k]
                       /\ Exit(p, << >>, "OverflowError", 1)
                       /\ UNCHANGED <<expires_at, payload, posts>>
                  ELSE LET expires == isoformat(now + days_valid)
                           body == Payload(k, email, expires)
                       IN /\ key' = [key EXCEPT ![p] = k]
                          /\ expires_at' = [expires_at EXCEPT ![p] = expires]
                          /\ payload' = [payload EXCEPT ![p] = body]
                          /\ stdout' = [stdout EXCEPT ![p] = @ \o <<Line("Creating license for {email}...", <<email>>)>>]
                          /\ posts' = [posts EXCEPT ![p] = Post(@, StorePost(body))]
                          /\ pc' = [pc EXCEPT ![p] = "store_sent"]
                          /\ UNCHANGED <<raised, exitCode>>
  /\ UNCHANGED <<SUPABASE_SERVICE_KEY, RESEND_API_KEY, reply, response, licenses, origin>>

\* The store handles the insert of run p: a row whose license_key the
\* table already holds is rejected; any other is created, or rejected for
\* another reason (a server error).
StoreInsert(p) ==
  /\ pc[p] = "store_sent"
  /\ LET row == posts[p][Len(posts[p])].json
     IN IF \E i \in DOMAIN licenses : licenses[i].license_key = row.license_key
        THEN /\ reply' = [reply EXCEPT ![p] = DuplicateReply]
             /\ UNCHANGED <<licenses, origin>>
        ELSE \/ /\ licenses' = Append(licenses, row)
                /\ origin' = Append(origin, p)
                /\ \E r \in CreatedReplies : reply' = [reply EXCEPT ![p] = r]
             \/ /\ \E r \in RejectedReplies : reply' = [reply EXCEPT ![p] = r]
                /\ UNCHANGED <<licenses, origin>>
  /\ pc' = [pc EXCEPT ![p] = "store_replied"]
  /\ UNCHANGED <<SUPABASE_SERVICE_KEY, RESEND_API_KEY, argv, key, expires_at,
                 payload, posts, response, stdout, raised, exitCode>>

\* requests.post of line 52 raises: the request was lost on its way, or
\* the store's answer was.  Nothing in create_license or __main__ catches
\* the exception, so the interpreter prints the traceback and exits 1.
StoreRaise(p) ==
  /\ pc[p] \in {"store_sent", "store_replied"}
  /\ Exit(p, << >>, "ConnectionError", 1)
  /\ UNCHANGED <<SUPABASE_SERVICE_KEY, RESEND_API_KEY, argv, key, expires_at,
                 payload, posts, reply, response, licenses, origin>>

\* requests.post of line 52 returns: lines 52-62, and send_email (called
\* on line 60) up to its requests.post (lines 64-93).
StoreReturn(p) ==
  /\ pc[p] = "store_replied"
  /\ response' = [response EXCEPT ![p] = reply[p]]
  /\ LET email == argv[p][1]
         created == << Line("SUCCESS: License Created!", << >>),
                       Line("Key: {key}", <<key[p]>>),
                       Line("Expires: {expires_at}", <<expires_at[p]>>) >>
     IN IF StatusOk(reply[p].status_code)
        THEN \* send_email(email, key)
             IF ResendKeyMissing
             THEN /\ Exit(p, created \o
                             << Line("WARNING: RESEND_API_KEY not found. Skipping email.", << >>),
                                Line("Please manually send key {license_key} to {to_email}", <<key[p], email>>) >>,
                          "", 0)
                  /\ UNCHANGED posts
             ELSE /\ stdout' = [stdout EXCEPT ![p] = @ \o created \o <<Line("Sending email via Resend...", << >>)>>]
                  /\ posts' = [posts EXCEPT ![p] = Post(@, EmailPost(Data(email, key[p])))]
                  /\ pc' = [pc EXCEPT ![p] = "email_sent"]
                  /\ UNCHANGED <<raised, exitCode>>
        ELSE /\ Exit(p, <<Line("FAILED to create license: {response.text}", <<reply[p].text>>)>>, "", 0)
             /\ UNCHANGED posts
  /\ UNCHANGED <<SUPABASE_SERVICE_KEY, RESEND_API_KEY, argv, key, expires_at,
                 payload, reply, licenses, origin>>

\* EmailReturn without the try/except of lines 92 and 98.
EmailReturnUncaught(p) ==
  /\ pc[p] = "email_sent"
  /\ \E out \in EmailOutcomes :
       IF out.exc # ""
       THEN Exit(p, << >>, out.exc, 1)
       ELSE IF EmailOk(out.status_code)
       THEN Exit(p, <<Line("Email sent successfully!", << >>)>>, "", 0)
       ELSE Exit(p, <<Line("Email failed: {resp.text}", <<out.text>>)>>, "", 0)
  /\ UNCHANGED <<SUPABASE_SERVICE_KEY, RESEND_API_KEY, argv, key, expires_at,
                 payload, posts, reply, response, licenses, origin>>

\* requests.post of line 93 returns or raises: lines 92-99, then the
\* returns from send_email and create_license and the end of the script.
EmailReturn(p) ==
  /\ pc[p] = "email_sent"
  /\ \E out \in EmailOutcomes :
       IF out.exc # ""
       THEN \* except Exception as e
            Exit(p, <<Line("Email error: {e}", <<out.exc>>)>>, "", 0)
       ELSE IF EmailOk(out.status_code)
       THEN Exit(p, <<Line("Email sent successfully!", << >>)>>, "", 0)
       ELSE Exit(p, <<Line("Email failed: {resp.text}", <<out.text>>)>>, "", 0)
  /\ UNCHANGED <<SUPABASE_SERVICE_KEY, RESEND_API_KEY, argv, key, expires_at,
                 payload, posts, reply, response, licenses, origin>>

Next ==
  \E p \in Procs :
    \/ Main(p)
    \/ StoreInsert(p)
    \/ StoreRaise(p)
    \/ StoreReturn(p)
    \/ EmailReturn(p)

Spec == Init /\ [][Next]_vars

\* generate_license_key() on its own, for every outcome of the random
\* source over RandIdx.
GenerateKey ==
  /\ key[1] = << >>
  /\ \E rand \in [1..12 -> RandIdx] :
       key' = [key EXCEPT ![1] = generate_license_key(rand)]
  /\ UNCHANGED <<SUPABASE_SERVICE_KEY, RESEND_API_KEY, pc, argv, expires_at,
                 payload, posts, reply, response, stdout, raised, exitCode,
                 licenses, origin>>

InitKey == Init /\ SUPABASE_SERVICE_KEY = None /\ RESEND_API_KEY = None
NextKey == GenerateKey
SpecKey == InitKey /\ [][NextKey]_vars

\* ------------------------------------------------- what a run has done
Printed(p, text) == \E i \in DOMAIN stdout[p] : stdout[p][i].text = text
PrintedWith(p, text, args) ==
  \E i \in DOMAIN stdout[p] : stdout[p][i].text = text /\ stdout[p][i].args = args

ConfigurationFailure(p) ==
  Printed(p, "ERROR: PROJECTOR_SUPABASE_SERVICE_KEY environment variable is not set.")
IssuanceFailure(p) == Printed(p, "FAILED to create license: {response.text}")
Success(p) == Printed(p, "SUCCESS: License Created!")

StorePosts(p) ==
  {i \in DOMAIN posts[p] : posts[p][i].url = <<SUPABASE_URL, "/rest/v1/licenses">>}
EmailPosts(p) == {i \in DOMAIN posts[p] : posts[p][i].url = <<RESEND_URL>>}

\* create_license was entered: the command line had an e-mail and, when
\* given, a number of days that parses.
CreateLicenseCalled(p) ==
  /\ pc[p] # "start"
  /\ Len(argv[p]) >= 1
  /\ Len(argv[p]) > 1 => IntOk(argv[p][2])

\* The store holds a row that run p's insert created.
Stored(p) == \E i \in DOMAIN licenses : origin[i] = p
Acknowledged(p) == response[p].status_code \in {200, 201}
Refused(p) == response[p] # NoReply /\ response[p].status_code \notin {200, 201}

\* -------------------------------------------------------------- claims

\* C1: when the store answers the insert with a status other than 200 or
\* 201, the run ends in an issuance failure (the FAILED line, no SUCCESS
\* line) and never sends a request to the e-mail provider, whether or not
\* an e-mail credential is set; this already holds from the moment the
\* store has given that answer.
C1_RejectedInsertNeverNotifies ==
  \A p \in Procs :
    /\ (reply[p] # NoReply /\ reply[p].status_code \notin {200, 201})
         => EmailPosts(p) = {} /\ ~Success(p) /\ pc[p] # "email_sent"
    /\ Refused(p)
         => pc[p] = "done" /\ IssuanceFailure(p) /\ EmailPosts(p) = {}
C1_Witness ==
  \E p \in Procs :
    /\ response[p].status_code = 409
    /\ IssuanceFailure(p)
    /\ ~Falsy(RESEND_API_KEY)

\* C2: with no store credential (unset or empty), no run sends any
\* request, and every run that entered create_license, with or without a
\* number of days, ended with the configuration failure message.
C2_NoCredentialNoNetwork ==
  Falsy(SUPABASE_SERVICE_KEY) =>
    \A p \in Procs :
      /\ posts[p] = << >>
      /\ licenses = << >>
      /\ CreateLicenseCalled(p) =>
           pc[p] = "done" /\ ConfigurationFailure(p) /\ ~Success(p)
C2_Witness ==
  \E p, q \in Procs :
    /\ SUPABASE_SERVICE_KEY = None
    /\ Len(argv[p]) = 1 /\ ConfigurationFailure(p)
    /\ Len(argv[q]) = 2 /\ ConfigurationFailure(q)

\* C3: when the store acknowledged the insert (200 or 201), the key
\* generated before the insert is the one in the request's record, in the
\* stored row, in the Key line printed, and the one send_email was called
\* with; and send_email's address is the record's e-mail: the e-mail
\* request, when one is sent, goes to that address and carries that key.
C3_NotifiesWithPersistedKeyAndEmail ==
  \A p \in Procs :
    Acknowledged(p) =>
      /\ \A i \in StorePosts(p) : posts[p][i].json = payload[p]
      /\ payload[p].license_key = key[p]
      /\ payload[p].email = argv[p][1]
      /\ \E i \in DOMAIN licenses :
           /\ origin[i] = p
           /\ licenses[i].license_key = key[p]
           /\ licenses[i].email = argv[p][1]
      /\ PrintedWith(p, "Key: {key}", <<key[p]>>)
      /\ IF Falsy(RESEND_API_KEY)
         THEN PrintedWith(p, "Please manually send key {license_key} to {to_email}",
                          <<payload[p].license_key, payload[p].email>>)
         ELSE /\ EmailPosts(p) # {}
              /\ \A i \in EmailPosts(p) :
                   /\ posts[p][i].json.to = payload[p].email
                   /\ posts[p][i].json.html.license_key = payload[p].license_key
C3_Witness ==
  \E p \in Procs :
    /\ response[p].status_code = 201
    /\ EmailPosts(p) # {}
    /\ \E q \in Procs : q # p /\ Acknowledged(q) /\ key[q] # key[p]
                        /\ argv[q][1] # argv[p][1]

\* C4: after an acknowledged insert, whatever the e-mail request does
\* (200, another status, an exception), the run ends as a success: exit
\* status 0, no exception out of it, the SUCCESS line and no FAILED line,
\* and the row it stored is still the record it sent, status active.
C4_NotificationOutcomeNeverFails ==
  \A p \in Procs :
    (Acknowledged(p) /\ pc[p] = "done") =>
      /\ exitCode[p] = 0
      /\ raised[p] = ""
      /\ Success(p) /\ ~IssuanceFailure(p)
      /\ \E i \in DOMAIN licenses :
           origin[i] = p /\ licenses[i] = payload[p] /\ licenses[i].status = "active"
C4_Witness ==
  \E p, q \in Procs :
    /\ pc[p] = "done" /\ Printed(p, "Email error: {e}") /\ exitCode[p] = 0
    /\ pc[q] = "done" /\ Printed(q, "Email failed: {resp.text}") /\ exitCode[q] = 0

\* C5: with a store credential and no e-mail credential, a run whose
\* insert was acknowledged ends as a success (exit status 0, no
\* exception), has sent nothing to the e-mail provider, and has printed
\* the warning asking for manual delivery.
C5_NoEmailCredentialSkips ==
  (~Falsy(SUPABASE_SERVICE_KEY) /\ Falsy(RESEND_API_KEY)) =>
    \A p \in Procs :
      /\ EmailPosts(p) = {}
      /\ Acknowledged(p) =>
           /\ pc[p] = "done" /\ exitCode[p] = 0 /\ raised[p] = ""
           /\ Success(p) /\ ~IssuanceFailure(p)
           /\ Printed(p, "WARNING: RESEND_API_KEY not found. Skipping email.")
C5_Witness ==
  \E p \in Procs :
    /\ Falsy(RESEND_API_KEY)
    /\ Acknowledged(p)
    /\ Printed(p, "WARNING: RESEND_API_KEY not found. Skipping email.")

\* C6 as stated: at the end of every run, also one whose insert request
\* failed at the transport level, the store holds the run's record exactly
\* when the run reported success.
C6_StoredIffSuccess ==
  \A p \in Procs : pc[p] = "done" => (Stored(p) <=> Success(p))
\* C6 amended: at the end of every run whose insert request did not raise
\* (it returned a response, or was never sent), the store holds the run's
\* record exactly when the run reported success; and a run that reported
\* success always has its record stored.  A run whose insert request
\* raised reports no success, and its record may or may not be stored.
C6_StoredIffSuccessUnlessRaised ==
  \A p \in Procs :
    /\ Success(p) => Stored(p)
    /\ (pc[p] = "done" /\ raised[p] # "ConnectionError")
         => (Stored(p) <=> Success(p))
    /\ raised[p] = "ConnectionError" => ~Success(p)
C6_Witness ==
  \E p, q \in Procs :
    /\ pc[p] = "done" /\ Stored(p) /\ Success(p)
    /\ pc[q] = "done" /\ ~Stored(q) /\ IssuanceFailure(q)

C8_ExitStatus ==
  \A p \in Procs :
    pc[p] = "done" =>
      /\ (CreateLicenseCalled(p) /\ Falsy(SUPABASE_SERVICE_KEY))
           => exitCode[p] # 0 /\ ConfigurationFailure(p)
      /\ Refused(p) => exitCode[p] # 0 /\ IssuanceFailure(p)
      /\ exitCode[p] = 0
           => /\ Stored(p)
              /\ PrintedWith(p, "Key: {key}", <<key[p]>>)
              /\ PrintedWith(p, "Expires: {expires_at}", <<expires_at[p]>>)

\* C9: every key generate_license_key returns is PRO, then three groups
\* of four characters of A-Z and 0-9, each group after a hyphen: eighteen
\* characters in all.
AZ09 ==
  { "A","B","C","D","E","F","G","H","I","J","K","L","M","N","O","P","Q",
    "R","S","T","U","V","W","X","Y","Z","0","1","2","3","4","5","6","7",
    "8","9" }
MatchesKeyFormat(s) ==
  /\ Len(s) = 18
  /\ SubSeq(s, 1, 4) = <<"P", "R", "O", "-">>
  /\ s[9] = "-" /\ s[14] = "-"
  /\ \A i \in (5..8) \cup (10..13) \cup (15..18) : s[i] \in AZ09
C9_KeyFormat ==
  \A p \in Procs : key[p] # << >> => MatchesKeyFormat(key[p])
C9_Witness ==
  /\ key[1] # << >>
  /\ key[1][5] = "A" /\ key[1][8] = "9" /\ key[1][10] = "9" /\ key[1][18] = "A"

\* C10: under every interleaving of the runs, no two rows of the store
\* have the same license_key; a run whose key the store already held is
\* answered with the duplicate rejection, sends no second insert and no
\* e-mail request and ends in an issuance failure; and every e-mail
\* request carries a key whose row was created by the run that sends it.
C10_NoDuplicateKeys ==
  /\ \A i, j \in DOMAIN licenses :
       i # j => licenses[i].license_key # licenses[j].license_key
  /\ \A p \in Procs :
       /\ reply[p] = DuplicateReply
            => /\ ~Stored(p)
               /\ Cardinality(StorePosts(p)) = 1
               /\ EmailPosts(p) = {}
       /\ response[p] = DuplicateReply => pc[p] = "done" /\ IssuanceFailure(p)
       /\ \A e \in EmailPosts(p) :
            \E i \in DOMAIN licenses :
              /\ origin[i] = p
              /\ licenses[i].license_key = posts[p][e].json.html.license_key
C10_Witness ==
  \E p, q \in Procs :
    /\ p # q /\ key[p] = key[q] /\ key[p] # << >>
    /\ Stored(p) /\ EmailPosts(p) # {}
    /\ response[q] = DuplicateReply /\ pc[q] = "done"

====
